---- MODULE Spec2Model ----
(***************************************************************************)
(* State-machine model of the discord-matcher bot (src/src/bot.py) and of  *)
(* its location worker (src/src/location_service.py).                      *)
(*                                                                         *)
(* The bot is one discord.py client: every handler is a coroutine on one   *)
(* event loop, and the database helpers are synchronous.  A handler        *)
(* therefore runs without interruption from one `await` to the next, and   *)
(* each action below is one such run.  The location worker is a separate   *)
(* process sharing the database and the queue.                             *)
(***************************************************************************)
EXTENDS Integers, Sequences, FiniteSets, Bags, TLC

VARIABLES
    profiles,       \* table user_profiles, keyed by <<discord_id, guild_id>>
    swipes,         \* table swipes: a bag of rows (id and timestamp left out)
    views,          \* the MatchView each member last opened (one alive per member)
    queue,          \* RabbitMQ queue location_updates
    broker,         \* whether the bot can reach RabbitMQ: "up" or "down"
    reply,          \* content of the last interaction response sent
    members,        \* the <<user, guild>> pairs interactions arrive from
    worker          \* where the location worker stands on the message it holds

vars == <<profiles, swipes, views, queue, broker, reply, members, worker>>

----------------------------------------------------------------------------
(* Bounds of the model *)

MaxQueue == 1       \* messages the queue may hold

Users == {"u1", "u2", "u3"}
Guilds == {"g1", "g2"}
Keys == Users \X Guilds

None == "None"                    \* Python None / SQL NULL
NoCandidate == <<None, None>>     \* None where the key of a row is expected
NoProfile == [absent |-> TRUE]    \* .first() found no row

----------------------------------------------------------------------------
(* Enumerations *)

GenderEnum == {"Male", "Female", "Trans", "NonBinary"}

\* The values the gender selects of the UI offer.
GenderOptions == {"Male", "Female", "Trans", "Non-Binary"}

LookingForOptions == {"Dating", "Friends", "Prom Night"}

LocationPreferenceOptions ==
    {"State/Province", "Nearby", "Same Country", "Same Continent", "Anywhere"}

\* str.lower() on the strings the model uses.
Lower(s) ==
    CASE s = "Non-Binary" -> "non-binary"
      [] s = "NonBinary" -> "nonbinary"
      [] s = "Male" -> "male"
      [] s = "Female" -> "female"
      [] s = "Trans" -> "trans"
      [] OTHER -> s

to_gender_enum(value) ==
    IF Lower(value) \in {"nonbinary", "non-binary"} THEN "NonBinary" ELSE value

----------------------------------------------------------------------------
(* Synchronous database helper functions.  Each takes the tables it reads  *)
(* and returns the value it returns or the table as its commit leaves it.  *)

get_user_profile(P, discord_id, guild_id) == P[<<discord_id, guild_id>>]

create_user_profile(P, discord_id, guild_id, age, gender, looking_for, attracted_genders, preferred_min_age, preferred_max_age) ==
    [P EXCEPT ![<<discord_id, guild_id>>] =
        [discord_id |-> discord_id,
         guild_id |-> guild_id,
         age |-> age,
         gender |-> to_gender_enum(gender),
         looking_for |-> looking_for,
         attracted_genders |-> {to_gender_enum(g) : g \in attracted_genders},
         preferred_min_age |-> preferred_min_age,
         preferred_max_age |-> preferred_max_age,
         matched_with |-> None,
         country |-> None,
         state |-> None,
         latitude |-> None,
         longitude |-> None,
         location_preference |-> "Anywhere"]]

\* kwargs is a record of the keyword arguments.
update_user_profile(P, discord_id, guild_id, kwargs) ==
    LET k == <<discord_id, guild_id>>
        old == P[k]
        val(f) ==
            IF f \notin DOMAIN kwargs THEN old[f]
            ELSE IF f = "gender" THEN to_gender_enum(kwargs[f])
            ELSE IF f = "attracted_genders"
                 THEN {to_gender_enum(g) : g \in kwargs[f]}
            ELSE kwargs[f]
    IN  IF old = NoProfile THEN P
        ELSE [P EXCEPT ![k] = [f \in DOMAIN old |-> val(f)]]

delete_user_profile(P, discord_id, guild_id) ==
    [P EXCEPT ![<<discord_id, guild_id>>] = NoProfile]

record_swipe(S, swiper_id, swiped_id, guild_id, right_swipe) ==
    S (+) SetToBag({[guild_id |-> guild_id, swiper_id |-> swiper_id,
                     swiped_id |-> swiped_id, right_swipe |-> right_swipe]})

\* Mutant of has_swiped: only right swipes count.
has_swiped_right_only(S, swiper_id, swiped_id, guild_id) ==
    \E row \in BagToSet(S) :
        /\ row.swiper_id = swiper_id
        /\ row.swiped_id = swiped_id
        /\ row.guild_id = guild_id
        /\ row.right_swipe

has_swiped(S, swiper_id, swiped_id, guild_id) ==
    \E row \in BagToSet(S) :
        /\ row.swiper_id = swiper_id
        /\ row.swiped_id = swiped_id
        /\ row.guild_id = guild_id

\* Mutant of has_right_swiped: the direction of the row is not tested.
has_right_swiped_any_direction(S, swiper_id, swiped_id, guild_id) ==
    \E row \in BagToSet(S) :
        /\ row.swiper_id = swiper_id
        /\ row.swiped_id = swiped_id
        /\ row.guild_id = guild_id

\* Mutant of has_right_swiped: a right swipe of any guild counts.
has_right_swiped_any_guild(S, swiper_id, swiped_id, guild_id) ==
    \E row \in BagToSet(S) :
        /\ row.swiper_id = swiper_id
        /\ row.swiped_id = swiped_id
        /\ row.right_swipe

has_right_swiped(S, swiper_id, swiped_id, guild_id) ==
    \E row \in BagToSet(S) :
        /\ row.swiper_id = swiper_id
        /\ row.swiped_id = swiped_id
        /\ row.guild_id = guild_id
        /\ row.right_swipe

\* Mutant of mark_as_matched: the second assignment is lost.
mark_as_matched_one_side(P, user1_id, user2_id, guild_id) ==
    LET profile1 == P[<<user1_id, guild_id>>]
        profile2 == P[<<user2_id, guild_id>>]
    IN  IF profile1 # NoProfile /\ profile2 # NoProfile
        THEN [P EXCEPT ![<<user1_id, guild_id>>].matched_with = profile2.discord_id]
        ELSE P

mark_as_matched(P, user1_id, user2_id, guild_id) ==
    LET profile1 == P[<<user1_id, guild_id>>]
        profile2 == P[<<user2_id, guild_id>>]
    IN  IF profile1 # NoProfile /\ profile2 # NoProfile
        THEN [P EXCEPT ![<<user1_id, guild_id>>].matched_with = profile2.discord_id,
                       ![<<user2_id, guild_id>>].matched_with = profile1.discord_id]
        ELSE P

----------------------------------------------------------------------------
(* get_next_candidate *)

\* The rows the SQL query of get_next_candidate selects.
\* Mutant of candidates: the lower age bound is compared strictly.
candidates_strict_age(P, user) ==
    {k \in Keys :
        /\ P[k] # NoProfile
        /\ P[k].discord_id # user.discord_id
        /\ P[k].guild_id = user.guild_id
        /\ P[k].matched_with = None
        /\ P[k].age > user.preferred_min_age
        /\ P[k].age <= user.preferred_max_age
        /\ P[k].looking_for = user.looking_for}

candidates(P, user) ==
    {k \in Keys :
        /\ P[k] # NoProfile
        /\ P[k].discord_id # user.discord_id
        /\ P[k].guild_id = user.guild_id
        /\ P[k].matched_with = None
        /\ P[k].age >= user.preferred_min_age
        /\ P[k].age <= user.preferred_max_age
        /\ P[k].looking_for = user.looking_for}

\* The query has no ORDER BY: .all() may list the rows in any order.
Orderings(rows) ==
    {seq \in [1..Cardinality(rows) -> rows] :
        \A i, j \in 1..Cardinality(rows) : i # j => seq[i] # seq[j]}

\* Mutant of scan_candidates: the has_swiped test is left out.
RECURSIVE scan_candidates_no_swipe_check(_, _, _, _, _)
scan_candidates_no_swipe_check(P, S, user, rows, i) ==
    IF i > Len(rows) THEN NoCandidate
    ELSE LET candidate == P[rows[i]]
         IN  IF candidate.gender \notin user.attracted_genders
             THEN scan_candidates_no_swipe_check(P, S, user, rows, i + 1)
             ELSE IF user.gender \notin candidate.attracted_genders
             THEN scan_candidates_no_swipe_check(P, S, user, rows, i + 1)
             ELSE rows[i]

\* Mutant of scan_candidates: the candidate's own attraction is not tested.
RECURSIVE scan_candidates_one_way(_, _, _, _, _)
scan_candidates_one_way(P, S, user, rows, i) ==
    IF i > Len(rows) THEN NoCandidate
    ELSE LET candidate == P[rows[i]]
         IN  IF candidate.gender \notin user.attracted_genders
             THEN scan_candidates_one_way(P, S, user, rows, i + 1)
             ELSE IF has_swiped(S, user.discord_id, candidate.discord_id, user.guild_id)
             THEN scan_candidates_one_way(P, S, user, rows, i + 1)
             ELSE rows[i]

\* The for loop over the rows from position i on: the key of the first row
\* no `continue` skips, or NoCandidate.
RECURSIVE scan_candidates(_, _, _, _, _)
scan_candidates(P, S, user, rows, i) ==
    IF i > Len(rows) THEN NoCandidate
    ELSE LET candidate == P[rows[i]]
         IN  IF candidate.gender \notin user.attracted_genders
             THEN scan_candidates(P, S, user, rows, i + 1)
             ELSE IF user.gender \notin candidate.attracted_genders
             THEN scan_candidates(P, S, user, rows, i + 1)
             ELSE IF has_swiped(S, user.discord_id, candidate.discord_id, user.guild_id)
             THEN scan_candidates(P, S, user, rows, i + 1)
             ELSE rows[i]

\* The rows get_next_candidate(user) may return, one per row order.
get_next_candidate(P, S, user) ==
    {scan_candidates(P, S, user, rows, 1) : rows \in Orderings(candidates(P, user))}

----------------------------------------------------------------------------
(* Location normalisation (location_service.py).  pycountry and rapidfuzz  *)
(* are libraries: their tables are modelled on the texts the model feeds.  *)

NoneObj == [none |-> TRUE]        \* None where an object is expected

\* list(pycountry.countries), restricted to two entries.
Countries ==
    <<[alpha_2 |-> "CA", alpha_3 |-> "CAN", name |-> "Canada"],
      [alpha_2 |-> "US", alpha_3 |-> "USA", name |-> "United States"]>>

\* list(pycountry.subdivisions), restricted to two entries.
Subdivisions ==
    <<[code |-> "CA-ON", country_code |-> "CA", name |-> "Ontario"],
      [code |-> "US-NJ", country_code |-> "US", name |-> "New Jersey"]>>

\* len() of the raw texts the model uses.
TextLen(t) ==
    CASE t = "" -> 0
      [] t \in {"US", "CA", "NJ", "nj", "ON", "ZZ"} -> 2
      [] t \in {"USA", "CAN"} -> 3
      [] t = "Cada" -> 4
      [] t = "Canda" -> 5
      [] t = "Canadxy" -> 7
      [] t = "Canada" -> 6
      [] t = "Atlantis" -> 8
      [] t = "New Jersey" -> 10
      [] t \in {"Unitd Staes", "Staes Unitx"} -> 11
      [] t = "United States" -> 13
      [] OTHER -> 12

\* str.upper() of the raw texts the model uses.
Upper(t) ==
    CASE t = "nj" -> "NJ"
      [] OTHER -> t

\* text.split("-")[-1] of the subdivision codes.
CodeSuffix(code) ==
    CASE code = "CA-ON" -> "ON"
      [] code = "US-NJ" -> "NJ"
      [] OTHER -> code

\* pycountry.countries.lookup(raw): the country raw is a code or the name
\* of, or NoneObj where it raises LookupError.
countries_lookup(raw) ==
    LET hit(c) == raw \in {c.alpha_2, c.alpha_3, c.name}
        hits == SelectSeq(Countries, hit)
    IN  IF hits = <<>> THEN NoneObj ELSE hits[1]

\* fuzz.WRatio(raw, choice) on a 0..100 scale, for the texts the model uses.
WRatio(raw, choice) ==
    CASE raw = choice -> 100
      [] raw = "Unitd Staes" /\ choice = "United States" -> 92
      [] raw = "Canda" /\ choice = "Canada" -> 91
      [] raw = "Cada" /\ choice = "Canada" -> 80
      [] raw = "Staes Unitx" /\ choice = "United States" -> 79
      [] raw = "Canadxy" /\ choice = "Canada" -> 76
      [] raw = "USA" /\ choice = "United States" -> 60
      [] raw = "US" /\ choice = "United States" -> 60
      [] raw = "Atlantis" /\ choice = "United States" -> 45
      [] raw = "Atlantis" /\ choice = "Canada" -> 30
      [] raw = "NJ" /\ choice = "New Jersey" -> 60
      [] OTHER -> 20

FuzzyThreshold == 80

\* process.extractOne(raw, choices, scorer=fuzz.WRatio): the position of the
\* first choice with the best score (choices is not empty).
extractOne(raw, choices) ==
    CHOOSE i \in 1..Len(choices) :
        /\ \A j \in 1..Len(choices) : WRatio(raw, choices[i]) >= WRatio(raw, choices[j])
        /\ \A j \in 1..(i - 1) : WRatio(raw, choices[j]) < WRatio(raw, choices[i])

\* Mutant of normalize_country: a score equal to the threshold is refused.
normalize_country_strict(raw_country) ==
    IF raw_country = "" THEN NoneObj
    ELSE IF TextLen(raw_country) \in {2, 3} /\ countries_lookup(raw_country) # NoneObj
    THEN countries_lookup(raw_country)
    ELSE LET choices == [i \in 1..Len(Countries) |-> Countries[i].name]
             best == extractOne(raw_country, choices)
         IN  IF WRatio(raw_country, choices[best]) > FuzzyThreshold
             THEN Countries[best]
             ELSE NoneObj

\* The Country object normalize_country returns, or NoneObj.
normalize_country(raw_country) ==
    IF raw_country = "" THEN NoneObj
    ELSE IF TextLen(raw_country) \in {2, 3} /\ countries_lookup(raw_country) # NoneObj
    THEN countries_lookup(raw_country)
    ELSE LET choices == [i \in 1..Len(Countries) |-> Countries[i].name]
             best == extractOne(raw_country, choices)
         IN  IF WRatio(raw_country, choices[best]) >= FuzzyThreshold
             THEN Countries[best]
             ELSE NoneObj

\* The Subdivision object normalize_subdivision returns, or NoneObj.
normalize_subdivision(raw_state, country_code) ==
    LET of_country(s) == s.country_code = country_code
        subdivisions == SelectSeq(Subdivisions, of_country)
        exact(s) == CodeSuffix(s.code) = Upper(raw_state)
        choices == [i \in 1..Len(subdivisions) |-> subdivisions[i].name]
        best == extractOne(raw_state, choices)
    IN  IF raw_state = "" \/ country_code = None THEN NoneObj
        ELSE IF subdivisions = <<>> THEN NoneObj
        ELSE IF SelectSeq(subdivisions, exact) # <<>>
        THEN SelectSeq(subdivisions, exact)[1]
        ELSE IF WRatio(raw_state, choices[best]) >= FuzzyThreshold
        THEN subdivisions[best]
        ELSE NoneObj

\* What the geocoder may answer for a query: coordinates, or no result /
\* a timeout / a service error, all three of which give (None, None).
geocode_location(country_name, state_name) ==
    {[lat |-> "lat(" \o (IF state_name # None THEN state_name \o ", " ELSE "")
                     \o country_name \o ")",
      lon |-> "lon(" \o (IF state_name # None THEN state_name \o ", " ELSE "")
                     \o country_name \o ")"],
     [lat |-> None, lon |-> None]}

----------------------------------------------------------------------------
(* Text inputs of the modals *)

\* int(text): the number, or -1 where int() raises ValueError.
int(text) ==
    CASE text = "17" -> 17
      [] text = "18" -> 18
      [] text = "20" -> 20
      [] text = "25" -> 25
      [] text = "28" -> 28
      [] text = "30" -> 30
      [] text = "31" -> 31
      [] text = "100" -> 100
      [] text = "101" -> 101
      [] OTHER -> -1

\* The responses of the handlers.
MsgRangeFormat == "Preferred age range must be in format 'min-max'."
MsgAgeNumber == "Current age must be a valid number."
MsgAgeBounds == "Your age must be between 18 and 100."
MsgMinAge == "Minimum preferred age must be at least 18."
MsgMaxAge == "Maximum preferred age must be 100 or less."
MsgMinMax == "Minimum preferred age cannot be greater than maximum preferred age."
MsgAlready == "You already have a profile. Use /update_profile to modify it."
MsgCreated == "Profile created successfully!"
MsgUpdated == "Profile updated successfully!"
MsgUpdateFailed == "Failed to update profile."
MsgSettings == "Settings updated!"
MsgSettingsFailed == "Failed to update settings."
MsgNotFound == "User profile not found."
MsgRunOut == "You've run out of swipes for now. Check back tomorrow!"
MsgSwipe == "Swipe right or left:"
MsgNoCandidate == "No candidate available."
MsgMatch == "It's a match!"
MsgNothingToDelete == "No profile found to delete."
MsgDeleted == "Profile deleted successfully."
MsgCreateFirst == "You must create a profile first using /create_profile."
MsgAlreadyMatched == "You are already matched. Unmatch first to start swiping."
MsgNoNew == "No new candidates found right now. Check back later!"
MsgFetching == "Fetching a potential match..."
MsgNotMatched == "You are not currently matched with anyone."
MsgUnmatched == "Match removed. Both users are now back in the matching pool."

\* The response of the checks both modals make on their text inputs, or
\* None where the inputs pass.  range_parts is preferred_age_range.split("-").
modal_validation(age_text, range_parts) ==
    IF int(age_text) = -1 THEN MsgAgeNumber
    ELSE IF Len(range_parts) # 2 \/ \E i \in 1..Len(range_parts) : int(range_parts[i]) = -1
    THEN MsgRangeFormat
    ELSE IF int(age_text) < 18 \/ int(age_text) > 100 THEN MsgAgeBounds
    ELSE IF int(range_parts[1]) < 18 THEN MsgMinAge
    ELSE IF int(range_parts[2]) > 100 THEN MsgMaxAge
    ELSE IF int(range_parts[1]) > int(range_parts[2]) THEN MsgMinMax
    ELSE None

----------------------------------------------------------------------------
(* The queue *)

\* send_location_update: the queue after the publish.  With the broker out
\* of reach pika raises, and the exception is logged and dropped.
send_location_update(Q, up, discord_id, guild_id, raw_country, raw_state) ==
    IF up = "up"
    THEN Append(Q, [discord_id |-> discord_id, guild_id |-> guild_id,
                    raw_country |-> raw_country, raw_state |-> raw_state])
    ELSE Q

----------------------------------------------------------------------------
(* Profile handlers *)

\* Mutant of ProfileInfoModal_on_submit: the profile is created without
\* looking for an existing one.
ProfileInfoModal_on_submit_no_lookup(m, age_text, range_parts, raw_country, raw_state) ==
    /\ m \in members
    /\ UNCHANGED <<swipes, views, broker, members, worker>>
    /\ IF modal_validation(age_text, range_parts) # None
       THEN /\ reply' = modal_validation(age_text, range_parts)
            /\ UNCHANGED <<profiles, queue>>
       ELSE /\ Len(queue) < MaxQueue
            /\ profiles' = create_user_profile(profiles, m[1], m[2], int(age_text),
                               "Male", "Dating", {"Female"},
                               int(range_parts[1]), int(range_parts[2]))
            /\ queue' = send_location_update(queue, broker, m[1], m[2], raw_country, raw_state)
            /\ reply' = MsgCreated

ProfileInfoModal_on_submit(m, age_text, range_parts, raw_country, raw_state) ==
    /\ m \in members
    /\ UNCHANGED <<swipes, views, broker, members, worker>>
    /\ IF modal_validation(age_text, range_parts) # None
       THEN /\ reply' = modal_validation(age_text, range_parts)
            /\ UNCHANGED <<profiles, queue>>
       ELSE IF get_user_profile(profiles, m[1], m[2]) # NoProfile
       THEN /\ reply' = MsgAlready
            /\ UNCHANGED <<profiles, queue>>
       ELSE /\ Len(queue) < MaxQueue
            /\ profiles' = create_user_profile(profiles, m[1], m[2], int(age_text),
                               "Male", "Dating", {"Female"},
                               int(range_parts[1]), int(range_parts[2]))
            /\ queue' = send_location_update(queue, broker, m[1], m[2], raw_country, raw_state)
            /\ reply' = MsgCreated

UpdateProfileModal_on_submit(m, age_text, range_parts, raw_country, raw_state) ==
    /\ m \in members
    /\ UNCHANGED <<swipes, views, broker, members, worker>>
    /\ IF modal_validation(age_text, range_parts) # None
       THEN /\ reply' = modal_validation(age_text, range_parts)
            /\ UNCHANGED <<profiles, queue>>
       ELSE /\ Len(queue) < MaxQueue
            /\ profiles' = update_user_profile(profiles, m[1], m[2],
                               [age |-> int(age_text)])
            /\ queue' = send_location_update(queue, broker, m[1], m[2], raw_country, raw_state)
            /\ reply' = IF get_user_profile(profiles, m[1], m[2]) # NoProfile
                        THEN MsgUpdated ELSE MsgUpdateFailed

\* The view holds the age and the age range its modal was submitted with,
\* and the selections made since.
confirm_profile(m, age, preferred_min_age, preferred_max_age, looking_for, gender, attracted) ==
    /\ m \in members
    /\ UNCHANGED <<swipes, views, queue, broker, members, worker>>
    /\ profiles' = update_user_profile(profiles, m[1], m[2],
                       [age |-> age,
                        looking_for |-> looking_for,
                        preferred_min_age |-> preferred_min_age,
                        preferred_max_age |-> preferred_max_age,
                        gender |-> gender,
                        attracted_genders |-> attracted])
    /\ reply' = IF get_user_profile(profiles, m[1], m[2]) # NoProfile
                THEN MsgUpdated ELSE MsgUpdateFailed

ConfirmSettingsButton_callback(m, preference) ==
    /\ m \in members
    /\ UNCHANGED <<swipes, views, queue, broker, members, worker>>
    /\ profiles' = update_user_profile(profiles, m[1], m[2],
                       [location_preference |-> preference])
    /\ reply' = IF get_user_profile(profiles, m[1], m[2]) # NoProfile
                THEN MsgSettings ELSE MsgSettingsFailed

\* Mutant of delete_profile: the swipes of the deleted member go with it.
delete_profile_cascade(m) ==
    /\ m \in members
    /\ UNCHANGED <<views, queue, broker, members, worker>>
    /\ swipes' = SetToBag({row \in BagToSet(swipes) :
                              row.guild_id # m[2] \/ row.swiper_id # m[1]})
    /\ profiles' = delete_user_profile(profiles, m[1], m[2])
    /\ reply' = IF get_user_profile(profiles, m[1], m[2]) # NoProfile
                THEN MsgDeleted ELSE MsgNothingToDelete

delete_profile(m) ==
    /\ m \in members
    /\ UNCHANGED <<swipes, views, queue, broker, members, worker>>
    /\ profiles' = delete_user_profile(profiles, m[1], m[2])
    /\ reply' = IF get_user_profile(profiles, m[1], m[2]) # NoProfile
                THEN MsgDeleted ELSE MsgNothingToDelete

\* Mutant of unmatch: the partner's reference is left as it is.
unmatch_actor_only(m) ==
    LET user == profiles[m]
    IN  /\ m \in members
        /\ UNCHANGED <<swipes, views, queue, broker, members, worker>>
        /\ IF user = NoProfile \/ user.matched_with = None
           THEN /\ reply' = MsgNotMatched
                /\ UNCHANGED profiles
           ELSE /\ profiles' = [profiles EXCEPT ![m].matched_with = None]
                /\ reply' = MsgUnmatched

\* Mutant of unmatch: only a missing profile counts as not matched.
unmatch_no_match_check(m) ==
    LET user == profiles[m]
        partner == IF user = NoProfile THEN NoProfile
                   ELSE IF <<user.matched_with, m[2]>> \in Keys
                        THEN profiles[<<user.matched_with, m[2]>>]
                        ELSE NoProfile
    IN  /\ m \in members
        /\ UNCHANGED <<swipes, views, queue, broker, members, worker>>
        /\ IF user = NoProfile
           THEN /\ reply' = MsgNotMatched
                /\ UNCHANGED profiles
           ELSE /\ profiles' =
                     IF partner # NoProfile
                     THEN [profiles EXCEPT ![m].matched_with = None,
                               ![<<user.matched_with, m[2]>>].matched_with = None]
                     ELSE [profiles EXCEPT ![m].matched_with = None]
                /\ reply' = MsgUnmatched

unmatch(m) ==
    LET user == profiles[m]
        partner == IF user = NoProfile THEN NoProfile
                   ELSE IF <<user.matched_with, m[2]>> \in Keys
                        THEN profiles[<<user.matched_with, m[2]>>]
                        ELSE NoProfile
    IN  /\ m \in members
        /\ UNCHANGED <<swipes, views, queue, broker, members, worker>>
        /\ IF user = NoProfile \/ user.matched_with = None
           THEN /\ reply' = MsgNotMatched
                /\ UNCHANGED profiles
           ELSE /\ profiles' =
                     IF partner # NoProfile
                     THEN [profiles EXCEPT ![m].matched_with = None,
                               ![<<user.matched_with, m[2]>>].matched_with = None]
                     ELSE [profiles EXCEPT ![m].matched_with = None]
                /\ reply' = MsgUnmatched

----------------------------------------------------------------------------
(* Matching handlers.  views[m] is the MatchView member m last opened: a    *)
(* member presses the buttons of that view only.                           *)

NoView == [status |-> "closed", current_candidate |-> NoCandidate]

\* Mutant of update_candidate: a missing profile is answered as a run-out.
update_candidate_conflated(m, P, S, out) ==
    LET user == get_user_profile(P, m[1], m[2])
    IN  IF user = NoProfile
        THEN /\ views' = [views EXCEPT ![m] = NoView]
             /\ out = MsgRunOut
        ELSE \E candidate \in get_next_candidate(P, S, user) :
                IF candidate = NoCandidate
                THEN /\ views' = [views EXCEPT ![m] = NoView]
                     /\ out = MsgRunOut
                ELSE /\ views' = [views EXCEPT ![m] =
                            [status |-> "open", current_candidate |-> candidate]]
                     /\ out = MsgSwipe

\* MatchView.update_candidate up to its first await, run on the view of m
\* against tables P and S: self.stop() closes the view, otherwise the
\* candidate found becomes current_candidate (the model keeps the key of
\* its row).  out is the message shown.
update_candidate(m, P, S, out) ==
    LET user == get_user_profile(P, m[1], m[2])
    IN  IF user = NoProfile
        THEN /\ views' = [views EXCEPT ![m] = NoView]
             /\ out = MsgNotFound
        ELSE \E candidate \in get_next_candidate(P, S, user) :
                IF candidate = NoCandidate
                THEN /\ views' = [views EXCEPT ![m] = NoView]
                     /\ out = MsgRunOut
                ELSE /\ views' = [views EXCEPT ![m] =
                            [status |-> "open", current_candidate |-> candidate]]
                     /\ out = MsgSwipe

\* /start_matching up to the await that sends the view.
start_matching(m) ==
    LET user_instance == profiles[m]
    IN  /\ m \in members
        /\ UNCHANGED <<profiles, swipes, queue, broker, members, worker>>
        /\ IF user_instance = NoProfile
           THEN reply' = MsgCreateFirst /\ UNCHANGED views
           ELSE IF user_instance.matched_with # None
           THEN reply' = MsgAlreadyMatched /\ UNCHANGED views
           ELSE \E candidate \in get_next_candidate(profiles, swipes, user_instance) :
                   IF candidate = NoCandidate
                   THEN reply' = MsgNoNew /\ UNCHANGED views
                   ELSE /\ views' = [views EXCEPT ![m] =
                               [status |-> "fetching", current_candidate |-> NoCandidate]]
                        /\ reply' = MsgFetching

\* Mutant of start_matching_update_candidate: the selector leaves a row in
\* the swipes table for the requester.
start_matching_update_candidate_marks(m) ==
    /\ views[m].status = "fetching"
    /\ update_candidate(m, profiles, swipes, reply')
    /\ swipes' = record_swipe(swipes, m[1], m[1], m[2], FALSE)
    /\ UNCHANGED <<profiles, queue, broker, members, worker>>

\* /start_matching from `await view.update_candidate(interaction)` on.
start_matching_update_candidate(m) ==
    /\ views[m].status = "fetching"
    /\ update_candidate(m, profiles, swipes, reply')
    /\ UNCHANGED <<profiles, swipes, queue, broker, members, worker>>

\* Mutant of swipe_left: a left swipe that finds a right swipe of the
\* target commits a match.
swipe_left_commits(m) ==
    /\ views[m].status # "closed"
    /\ UNCHANGED <<queue, broker, members, worker>>
    /\ IF views[m].current_candidate = NoCandidate
       THEN /\ reply' = MsgNoCandidate
            /\ UNCHANGED <<profiles, swipes, views>>
       ELSE /\ swipes' = record_swipe(swipes, m[1], views[m].current_candidate[1],
                                      m[2], FALSE)
            /\ IF has_right_swiped(swipes', views[m].current_candidate[1], m[1], m[2])
               THEN /\ profiles' = mark_as_matched(profiles, m[1],
                                       views[m].current_candidate[1], m[2])
                    /\ reply' = MsgMatch
                    /\ views' = [views EXCEPT ![m] = NoView]
               ELSE /\ update_candidate(m, profiles, swipes', reply')
                    /\ UNCHANGED profiles

\* MatchView.swipe_left on the view of m.
swipe_left(m) ==
    /\ views[m].status # "closed"
    /\ UNCHANGED <<profiles, queue, broker, members, worker>>
    /\ IF views[m].current_candidate = NoCandidate
       THEN /\ reply' = MsgNoCandidate
            /\ UNCHANGED <<swipes, views>>
       ELSE /\ swipes' = record_swipe(swipes, m[1], views[m].current_candidate[1],
                                      m[2], FALSE)
            /\ update_candidate(m, profiles, swipes', reply')

\* MatchView.swipe_right on the view of m.
swipe_right(m) ==
    /\ views[m].status # "closed"
    /\ UNCHANGED <<queue, broker, members, worker>>
    /\ IF views[m].current_candidate = NoCandidate
       THEN /\ reply' = MsgNoCandidate
            /\ UNCHANGED <<profiles, swipes, views>>
       ELSE /\ swipes' = record_swipe(swipes, m[1], views[m].current_candidate[1],
                                      m[2], TRUE)
            /\ IF has_right_swiped(swipes', views[m].current_candidate[1], m[1], m[2])
               THEN /\ profiles' = mark_as_matched(profiles, m[1],
                                       views[m].current_candidate[1], m[2])
                    /\ reply' = MsgMatch
                    /\ views' = [views EXCEPT ![m] = NoView]
               ELSE /\ update_candidate(m, profiles, swipes', reply')
                    /\ UNCHANGED profiles

\* View.timeout (180 s) elapses: the view stops taking presses.
on_timeout(m) ==
    /\ views[m].status = "open"
    /\ views' = [views EXCEPT ![m] = NoView]
    /\ UNCHANGED <<profiles, swipes, queue, broker, reply, members, worker>>

----------------------------------------------------------------------------
(* Location worker *)

\* Mutant of process_location_update: a message for a key without a
\* profile creates one.
process_location_update_upsert(P, data, geo) ==
    LET country_obj == normalize_country(data.raw_country)
        standardized_country ==
            IF country_obj # NoneObj THEN country_obj.name ELSE None
        country_code ==
            IF country_obj # NoneObj THEN country_obj.alpha_2 ELSE None
        state_obj ==
            IF data.raw_state # "" /\ country_code # None
            THEN normalize_subdivision(data.raw_state, country_code)
            ELSE NoneObj
        standardized_state == IF state_obj # NoneObj THEN state_obj.name ELSE None
        lat == IF standardized_country # None THEN geo.lat ELSE None
        lon == IF standardized_country # None THEN geo.lon ELSE None
        k == <<data.discord_id, data.guild_id>>
    IN  IF P[k] # NoProfile
        THEN [P EXCEPT ![k].country = standardized_country,
                       ![k].state = standardized_state,
                       ![k].latitude = lat,
                       ![k].longitude = lon]
        ELSE [P EXCEPT ![k] =
                 [discord_id |-> data.discord_id, guild_id |-> data.guild_id,
                  country |-> standardized_country, state |-> standardized_state,
                  latitude |-> lat, longitude |-> lon]]

\* Mutant of process_location_update: nothing is written when the
\* geocoder gave no coordinates.
process_location_update_skip_on_null(P, data, geo) ==
    LET country_obj == normalize_country(data.raw_country)
        standardized_country ==
            IF country_obj # NoneObj THEN country_obj.name ELSE None
        country_code ==
            IF country_obj # NoneObj THEN country_obj.alpha_2 ELSE None
        state_obj ==
            IF data.raw_state # "" /\ country_code # None
            THEN normalize_subdivision(data.raw_state, country_code)
            ELSE NoneObj
        standardized_state == IF state_obj # NoneObj THEN state_obj.name ELSE None
        lat == IF standardized_country # None THEN geo.lat ELSE None
        lon == IF standardized_country # None THEN geo.lon ELSE None
        k == <<data.discord_id, data.guild_id>>
    IN  IF P[k] # NoProfile /\ ~(standardized_country # None /\ geo.lat = None)
        THEN [P EXCEPT ![k].country = standardized_country,
                       ![k].state = standardized_state,
                       ![k].latitude = lat,
                       ![k].longitude = lon]
        ELSE P

\* Mutant of process_location_update: nothing is written when the
\* country is unresolved.
process_location_update_keep_old(P, data, geo) ==
    LET country_obj == normalize_country(data.raw_country)
        standardized_country ==
            IF country_obj # NoneObj THEN country_obj.name ELSE None
        country_code ==
            IF country_obj # NoneObj THEN country_obj.alpha_2 ELSE None
        state_obj ==
            IF data.raw_state # "" /\ country_code # None
            THEN normalize_subdivision(data.raw_state, country_code)
            ELSE NoneObj
        standardized_state == IF state_obj # NoneObj THEN state_obj.name ELSE None
        lat == IF standardized_country # None THEN geo.lat ELSE None
        lon == IF standardized_country # None THEN geo.lon ELSE None
        k == <<data.discord_id, data.guild_id>>
    IN  IF P[k] # NoProfile /\ standardized_country # None
        THEN [P EXCEPT ![k].country = standardized_country,
                       ![k].state = standardized_state,
                       ![k].latitude = lat,
                       ![k].longitude = lon]
        ELSE P

\* Mutant of process_location_update: the state is written only once the
\* row already holds the country.
process_location_update_two_phase(P, data, geo) ==
    LET country_obj == normalize_country(data.raw_country)
        standardized_country ==
            IF country_obj # NoneObj THEN country_obj.name ELSE None
        country_code ==
            IF country_obj # NoneObj THEN country_obj.alpha_2 ELSE None
        state_obj ==
            IF data.raw_state # "" /\ country_code # None
            THEN normalize_subdivision(data.raw_state, country_code)
            ELSE NoneObj
        standardized_state == IF state_obj # NoneObj THEN state_obj.name ELSE None
        lat == IF standardized_country # None THEN geo.lat ELSE None
        lon == IF standardized_country # None THEN geo.lon ELSE None
        k == <<data.discord_id, data.guild_id>>
    IN  IF P[k] # NoProfile
        THEN [P EXCEPT ![k].country = standardized_country,
                       ![k].state = IF P[k].country = standardized_country
                                    THEN standardized_state ELSE None,
                       ![k].latitude = lat,
                       ![k].longitude = lon]
        ELSE P

\* process_location_update on a well-formed message, with the geocoder
\* answering geo: the table after the commit.
process_location_update(P, data, geo) ==
    LET country_obj == normalize_country(data.raw_country)
        standardized_country ==
            IF country_obj # NoneObj THEN country_obj.name ELSE None
        country_code ==
            IF country_obj # NoneObj THEN country_obj.alpha_2 ELSE None
        state_obj ==
            IF data.raw_state # "" /\ country_code # None
            THEN normalize_subdivision(data.raw_state, country_code)
            ELSE NoneObj
        standardized_state == IF state_obj # NoneObj THEN state_obj.name ELSE None
        lat == IF standardized_country # None THEN geo.lat ELSE None
        lon == IF standardized_country # None THEN geo.lon ELSE None
        k == <<data.discord_id, data.guild_id>>
    IN  IF P[k] # NoProfile
        THEN [P EXCEPT ![k].country = standardized_country,
                       ![k].state = standardized_state,
                       ![k].latitude = lat,
                       ![k].longitude = lon]
        ELSE P

\* The query geocode_location is called with for message data.
geocode_query(data) ==
    LET country_obj == normalize_country(data.raw_country)
        state_obj ==
            IF data.raw_state # "" /\ country_obj # NoneObj
            THEN normalize_subdivision(data.raw_state, country_obj.alpha_2)
            ELSE NoneObj
    IN  IF country_obj = NoneObj THEN {[lat |-> None, lon |-> None]}
        ELSE geocode_location(country_obj.name,
                 IF state_obj # NoneObj THEN state_obj.name ELSE None)

\* The worker between two deliveries.  stage is the position in callback,
\* outcome the line process_location_update logged, geo the answer the
\* geocoder gave, passes the number of passes made on the message held.
Idle ==
    [stage |-> "idle", outcome |-> None,
     geo |-> [lat |-> None, lon |-> None], passes |-> 0]

\* A body json.loads or data.get fails on.
Malformed == [malformed |-> TRUE]

\* The consumer callback on the message at the head of the queue: process
\* it, then acknowledge it.
callback ==
    /\ queue # <<>>
    /\ \E geo \in geocode_query(Head(queue)) :
          profiles' = process_location_update(profiles, Head(queue), geo)
    /\ queue' = Tail(queue)
    /\ UNCHANGED <<swipes, views, broker, reply, members, worker>>

----------------------------------------------------------------------------
(* The system *)

TypeOK ==
    /\ DOMAIN profiles = Keys
    /\ IsABag(swipes)
    /\ broker \in {"up", "down"}
    /\ DOMAIN views = Keys
    /\ Len(queue) <= MaxQueue
    /\ members \subseteq Keys
    /\ worker.stage \in {"idle", "received", "processed"}

\* The tables are empty and no view is open.  Two deployments are followed:
\* three members with RabbitMQ out of reach, and two members with it up.
Init ==
    /\ profiles = [k \in Keys |-> NoProfile]
    /\ swipes = EmptyBag
    /\ views = [k \in Keys |-> NoView]
    /\ queue = <<>>
    /\ reply = None
    /\ worker = Idle
    /\ \/ members = {"u1", "u2", "u3"} \X {"g1"} /\ broker = "down"
       \/ members = {"u1", "u2"} \X {"g1"} /\ broker = "up"

\* The inputs the handlers are given.  Member u1 alone changes the
\* selections a profile is created with.
AgeTexts == {"25", "17"}
RangeParts == {<<"18", "100">>}
RawLocations == {<<"Atlantis", "">>}
Selectors == {<<"u1", "g1">>}
Selections ==
    {[looking_for |-> "Dating", gender |-> "Female", attracted |-> {"Male"}]}
Preferences == {"Anywhere"}

Next ==
    \/ \E m \in Keys, a \in AgeTexts, r \in RangeParts, loc \in RawLocations :
          ProfileInfoModal_on_submit(m, a, r, loc[1], loc[2])
    \/ \E m \in Keys, a \in AgeTexts, r \in RangeParts, loc \in RawLocations :
          UpdateProfileModal_on_submit(m, a, r, loc[1], loc[2])
    \/ \E m \in Selectors, a \in AgeTexts, r \in RangeParts, sel \in Selections :
          /\ modal_validation(a, r) = None
          /\ confirm_profile(m, int(a), int(r[1]), int(r[2]), sel.looking_for,
                             sel.gender, sel.attracted)
    \/ \E m \in Keys, p \in Preferences : ConfirmSettingsButton_callback(m, p)
    \/ \E m \in Keys : delete_profile(m)
    \/ \E m \in Keys : unmatch(m)
    \/ \E m \in Keys : start_matching(m)
    \/ \E m \in Keys : start_matching_update_candidate(m)
    \/ \E m \in Keys : swipe_left(m)
    \/ \E m \in Keys : swipe_right(m)
    \/ \E m \in Keys : on_timeout(m)
    \/ callback

Spec == Init /\ [][Next]_vars

----------------------------------------------------------------------------
(* The selector on stored tables.  The tables are drawn from rows the      *)
(* handlers can leave behind and are then only read: member u1 of g1 asks  *)
(* for candidates among u2 and u3 of g1, with a profile of u3 in g2.       *)

\* A user_profiles row with the columns the selector reads.
UserProfile(discord_id, guild_id, age, gender, looking_for, attracted_genders, preferred_min_age, preferred_max_age, matched_with) ==
    [discord_id |-> discord_id,
     guild_id |-> guild_id,
     age |-> age,
     gender |-> gender,
     looking_for |-> looking_for,
     attracted_genders |-> attracted_genders,
     preferred_min_age |-> preferred_min_age,
     preferred_max_age |-> preferred_max_age,
     matched_with |-> matched_with,
     country |-> None,
     state |-> None,
     latitude |-> None,
     longitude |-> None,
     location_preference |-> "Anywhere"]

\* The row of the requester, or none.
SelRequesters ==
    {NoProfile,
     UserProfile("u1", "g1", 25, "Male", "Dating", {"Female"}, 20, 30, None),
     UserProfile("u1", "g1", 25, "Male", "Dating", {"Female", "Male"}, 20, 30, None),
     UserProfile("u1", "g1", 25, "Male", "Friends", {"Female"}, 20, 30, None),
     UserProfile("u1", "g1", 25, "Male", "Dating", {"Female"}, 20, 30, "u2"),
     [UserProfile("u1", "g1", 25, "Male", "Dating", {"Female"}, 20, 30, None)
          EXCEPT !.location_preference = "Same Country"],
     [UserProfile("u1", "g1", 25, "Male", "Dating", {"Female"}, 20, 30, None)
          EXCEPT !.location_preference = "Same Country", !.country = "Canada",
                 !.latitude = "lat(Canada)", !.longitude = "lon(Canada)"]}

\* The row of member id of g1, or none: ages on both sides of both bounds
\* of the requester's range, one row per test of the selector failing, a
\* row whose own preferred range starts above the requester's age, and a
\* row the location worker has resolved to the United States.
SelCandidates(id, other) ==
    {NoProfile,
     UserProfile(id, "g1", 25, "Male", "Dating", {"Male"}, 18, 100, None),
     UserProfile(id, "g1", 25, "Female", "Dating", {"Female"}, 18, 100, None),
     UserProfile(id, "g1", 25, "Female", "Friends", {"Male"}, 18, 100, None),
     UserProfile(id, "g1", 25, "Female", "Dating", {"Male"}, 18, 100, other),
     UserProfile(id, "g1", 25, "Female", "Dating", {"Male"}, 26, 100, None),
     [UserProfile(id, "g1", 25, "Female", "Dating", {"Male"}, 18, 100, None)
          EXCEPT !.country = "United States",
                 !.latitude = "lat(United States)",
                 !.longitude = "lon(United States)"]}
    \cup {UserProfile(id, "g1", a, "Female", "Dating", {"Male"}, 18, 100, None) :
             a \in {19, 20, 30, 31}}

\* The row of u3 in g2, or none.
SelOtherGuild ==
    {NoProfile,
     UserProfile("u3", "g2", 25, "Female", "Dating", {"Male"}, 18, 100, None)}

\* The swipes rows of the ledger.
SelSwipes ==
    {[guild_id |-> "g1", swiper_id |-> "u1", swiped_id |-> "u2", right_swipe |-> FALSE],
     [guild_id |-> "g1", swiper_id |-> "u1", swiped_id |-> "u2", right_swipe |-> TRUE],
     [guild_id |-> "g1", swiper_id |-> "u1", swiped_id |-> "u3", right_swipe |-> TRUE],
     [guild_id |-> "g1", swiper_id |-> "u2", swiped_id |-> "u1", right_swipe |-> TRUE],
     [guild_id |-> "g2", swiper_id |-> "u1", swiped_id |-> "u2", right_swipe |-> TRUE]}

\* Ledgers of at most two rows.
SelLedgers == {SetToBag(rows) : rows \in {r \in SUBSET SelSwipes : Cardinality(r) <= 2}}

InitSel ==
    /\ \E r \in SelRequesters, c2 \in SelCandidates("u2", "u3"),
          c3 \in SelCandidates("u3", "u2"), o \in SelOtherGuild :
          profiles = [k \in Keys |->
                         CASE k = <<"u1", "g1">> -> r
                           [] k = <<"u2", "g1">> -> c2
                           [] k = <<"u3", "g1">> -> c3
                           [] k = <<"u3", "g2">> -> o
                           [] OTHER -> NoProfile]
    /\ swipes \in SelLedgers
    /\ views = [k \in Keys |-> NoView]
    /\ queue = <<>>
    /\ reply = None
    /\ broker = "down"
    /\ members = {<<"u1", "g1">>}
    /\ worker = Idle

NextSel ==
    \/ \E m \in Keys : start_matching(m)
    \/ \E m \in Keys : start_matching_update_candidate(m)
    \/ \E m \in Keys : on_timeout(m)

SpecSel == InitSel /\ [][NextSel]_vars

----------------------------------------------------------------------------
(* The location worker on a stored queue.  The queue holds messages the    *)
(* bot has published, or a body that is no JSON object, and the worker is  *)
(* followed through callback one statement at a time; the bot is at rest.  *)

MaxLocQueue == 2    \* messages the stored queue holds at most
MaxPasses == 2      \* passes over one message after which no crash is followed

\* callback up to the call of process_location_update: the broker has
\* delivered the message at the head of the queue (prefetch_count=1) and
\* holds it unacknowledged.
callback_receive ==
    /\ worker.stage = "idle"
    /\ queue # <<>>
    /\ worker' = [worker EXCEPT !.stage = "received"]
    /\ UNCHANGED <<profiles, swipes, views, queue, broker, reply, members>>

\* Mutant of callback_process: a malformed body stops the pass and the
\* message is left for another delivery.
callback_process_poison ==
    /\ worker.stage = "received"
    /\ LET body == Head(queue)
       IN  IF body = Malformed
           THEN /\ profiles' = profiles
                /\ worker' = [stage |-> "idle", outcome |-> "failed",
                              geo |-> Idle.geo, passes |-> worker.passes]
           ELSE \E geo \in geocode_query(body), db \in {"ok", "error"} :
                   /\ profiles' = IF db = "ok"
                                  THEN process_location_update(profiles, body, geo)
                                  ELSE profiles
                   /\ worker' =
                         [stage |-> "processed",
                          outcome |->
                              IF db = "error" THEN "db_error"
                              ELSE IF profiles[<<body.discord_id, body.guild_id>>] = NoProfile
                              THEN "no_profile"
                              ELSE "updated",
                          geo |-> geo,
                          passes |-> worker.passes + 1]
    /\ UNCHANGED <<swipes, views, queue, broker, reply, members>>

\* process_location_update(body) as callback calls it, with the geocoder
\* answering geo and the database answering db: "error" is an
\* SQLAlchemyError, rolled back.  The outcome is the line that is logged.
callback_process ==
    /\ worker.stage = "received"
    /\ LET body == Head(queue)
       IN  IF body = Malformed
           THEN /\ profiles' = profiles
                /\ worker' = [stage |-> "processed", outcome |-> "failed",
                              geo |-> Idle.geo, passes |-> worker.passes + 1]
           ELSE \E geo \in geocode_query(body), db \in {"ok", "error"} :
                   /\ profiles' = IF db = "ok"
                                  THEN process_location_update(profiles, body, geo)
                                  ELSE profiles
                   /\ worker' =
                         [stage |-> "processed",
                          outcome |->
                              IF db = "error" THEN "db_error"
                              ELSE IF profiles[<<body.discord_id, body.guild_id>>] = NoProfile
                              THEN "no_profile"
                              ELSE "updated",
                          geo |-> geo,
                          passes |-> worker.passes + 1]
    /\ UNCHANGED <<swipes, views, queue, broker, reply, members>>

\* Mutant of callback_ack: the message is given back to the queue.
callback_ack_requeue ==
    /\ worker.stage = "processed"
    /\ queue' = queue
    /\ worker' = Idle
    /\ UNCHANGED <<profiles, swipes, views, broker, reply, members>>

\* ch.basic_ack: the broker drops the message.
callback_ack ==
    /\ worker.stage = "processed"
    /\ queue' = Tail(queue)
    /\ worker' = Idle
    /\ UNCHANGED <<profiles, swipes, views, broker, reply, members>>

\* The worker process dies while it holds a message and is started again:
\* the broker puts the unacknowledged message back at the head.
crash ==
    /\ worker.stage # "idle"
    /\ worker.passes < MaxPasses
    /\ worker' = [worker EXCEPT !.stage = "idle"]
    /\ UNCHANGED <<profiles, swipes, views, queue, broker, reply, members>>

\* The country and state texts of the stored messages.
LocRaw ==
    {<<"US", "nj">>, <<"CAN", "ON">>, <<"Canda", "New Jersey">>,
     <<"Cada", "">>, <<"Canadxy", "ON">>, <<"", "NJ">>,
     <<"Staes Unitx", "">>}

\* The bodies the queue may hold: updates for u1 of g1, one for u2 of g1,
\* who has no profile, and a malformed body.
LocBodies ==
    {[discord_id |-> "u1", guild_id |-> "g1",
      raw_country |-> loc[1], raw_state |-> loc[2]] : loc \in LocRaw}
    \cup {[discord_id |-> "u2", guild_id |-> "g1",
           raw_country |-> "US", raw_state |-> "nj"],
          Malformed}

\* The row of u1 in g1: none, one no update has reached, one an earlier
\* update resolved to Ontario.
LocProfiles ==
    {NoProfile,
     UserProfile("u1", "g1", 25, "Male", "Dating", {"Female"}, 18, 100, None),
     [UserProfile("u1", "g1", 25, "Male", "Dating", {"Female"}, 18, 100, None)
          EXCEPT !.country = "Canada", !.state = "Ontario",
                 !.latitude = "lat(Ontario, Canada)",
                 !.longitude = "lon(Ontario, Canada)"]}

InitLoc ==
    /\ \E p \in LocProfiles :
          profiles = [k \in Keys |-> IF k = <<"u1", "g1">> THEN p ELSE NoProfile]
    /\ \E n \in 1..MaxLocQueue : queue \in [1..n -> LocBodies]
    /\ swipes = EmptyBag
    /\ views = [k \in Keys |-> NoView]
    /\ reply = None
    /\ broker = "up"
    /\ members = {<<"u1", "g1">>}
    /\ worker = Idle

NextLoc ==
    \/ callback_receive
    \/ callback_process
    \/ callback_ack
    \/ crash

SpecLoc == InitLoc /\ [][NextLoc]_vars

\* The worker that does not crash: start_consuming keeps delivering, the
\* geocoder call is bounded by its timeout, and the acknowledgement follows
\* the return of process_location_update.
NextLocLive ==
    \/ callback_receive
    \/ callback_process
    \/ callback_ack

SpecLocLive ==
    /\ InitLoc
    /\ [][NextLocLive]_vars
    /\ WF_vars(callback_receive)
    /\ WF_vars(callback_process)
    /\ WF_vars(callback_ack)

----------------------------------------------------------------------------
(* MatchView.swipe_right statement by statement.  The handler runs from its *)
(* defer to its next await without yielding the event loop, so no other    *)
(* handler runs in between; views[m].status keeps the statement the        *)
(* handler of m has reached.                                                *)

\* A swipe_right handler is between record_swipe and its next await.
InSwipe == \E k \in Keys : views[k].status \in {"recorded", "reciprocated", "unreciprocated"}

\* record_swipe(self.user_id, candidate, self.guild_id, True): the row is
\* committed when its session_scope exits.
swipe_right_record_swipe(m) ==
    /\ ~InSwipe
    /\ views[m].status = "open"
    /\ views[m].current_candidate # NoCandidate
    /\ swipes' = record_swipe(swipes, m[1], views[m].current_candidate[1], m[2], TRUE)
    /\ views' = [views EXCEPT ![m].status = "recorded"]
    /\ UNCHANGED <<profiles, queue, broker, reply, members, worker>>

\* Mutant of swipe_right_has_right_swiped: the reciprocity query runs
\* before the swipe of the actor is recorded.
swipe_right_has_right_swiped_first(m) ==
    /\ ~InSwipe
    /\ views[m].status = "open"
    /\ views[m].current_candidate # NoCandidate
    /\ views' = [views EXCEPT ![m].status =
                    IF has_right_swiped(swipes, views[m].current_candidate[1], m[1], m[2])
                    THEN "reciprocated" ELSE "unreciprocated"]
    /\ UNCHANGED <<profiles, swipes, queue, broker, reply, members, worker>>

\* if has_right_swiped(candidate, self.user_id, self.guild_id)
swipe_right_has_right_swiped(m) ==
    /\ views[m].status = "recorded"
    /\ views' = [views EXCEPT ![m].status =
                    IF has_right_swiped(swipes, views[m].current_candidate[1], m[1], m[2])
                    THEN "reciprocated" ELSE "unreciprocated"]
    /\ UNCHANGED <<profiles, swipes, queue, broker, reply, members, worker>>

\* mark_as_matched, the match message and self.stop().
swipe_right_mark_as_matched(m) ==
    /\ views[m].status = "reciprocated"
    /\ profiles' = mark_as_matched(profiles, m[1], views[m].current_candidate[1], m[2])
    /\ reply' = MsgMatch
    /\ views' = [views EXCEPT ![m] = NoView]
    /\ UNCHANGED <<swipes, queue, broker, members, worker>>

\* await self.update_candidate(interaction) of the branch without a match.
swipe_right_update_candidate(m) ==
    /\ views[m].status = "unreciprocated"
    /\ update_candidate(m, profiles, swipes, reply')
    /\ UNCHANGED <<profiles, swipes, queue, broker, members, worker>>

\* The stored profiles: u1 and the two members u1 is shown.
SwipeProfiles ==
    [k \in Keys |->
        CASE k = <<"u1", "g1">> ->
                 UserProfile("u1", "g1", 25, "Male", "Dating", {"Female"}, 18, 100, None)
          [] k = <<"u2", "g1">> ->
                 UserProfile("u2", "g1", 25, "Female", "Dating", {"Male"}, 18, 100, None)
          [] k = <<"u3", "g1">> ->
                 UserProfile("u3", "g1", 25, "Female", "Dating", {"Male"}, 18, 100, None)
          [] OTHER -> NoProfile]

\* The rows earlier swipes may have left.
SwipeRows ==
    {[guild_id |-> "g1", swiper_id |-> "u2", swiped_id |-> "u1", right_swipe |-> TRUE],
     [guild_id |-> "g1", swiper_id |-> "u3", swiped_id |-> "u1", right_swipe |-> TRUE],
     [guild_id |-> "g1", swiper_id |-> "u3", swiped_id |-> "u1", right_swipe |-> FALSE],
     [guild_id |-> "g1", swiper_id |-> "u1", swiped_id |-> "u3", right_swipe |-> FALSE],
     [guild_id |-> "g2", swiper_id |-> "u2", swiped_id |-> "u1", right_swipe |-> TRUE]}

\* The candidates the open views may show: a view shows a member its owner
\* has not swiped on.
SwipeViews ==
    {v \in [{<<"u1", "g1">>, <<"u2", "g1">>, <<"u3", "g1">>} -> {"u1", "u2", "u3", None}] :
        \A k \in DOMAIN v : v[k] # k[1]}

InitSwipe ==
    /\ profiles = SwipeProfiles
    /\ \E rows \in SUBSET SwipeRows, v \in SwipeViews :
          /\ swipes = SetToBag(rows)
          /\ \A k \in DOMAIN v, row \in rows :
                ~(row.swiper_id = k[1] /\ row.swiped_id = v[k] /\ row.guild_id = k[2])
          /\ views = [k \in Keys |->
                         IF k \in DOMAIN v /\ v[k] # None
                         THEN [status |-> "open", current_candidate |-> <<v[k], k[2]>>]
                         ELSE NoView]
    /\ queue = <<>>
    /\ reply = None
    /\ broker = "down"
    /\ members = {"u1", "u2", "u3"} \X {"g1"}
    /\ worker = Idle

NextSwipe ==
    \/ \E m \in Keys : swipe_right_record_swipe(m)
    \/ \E m \in Keys : swipe_right_has_right_swiped(m)
    \/ \E m \in Keys : swipe_right_mark_as_matched(m)
    \/ \E m \in Keys : swipe_right_update_candidate(m)

SpecSwipe == InitSwipe /\ [][NextSwipe]_vars

----------------------------------------------------------------------------
(* Two guilds with the same users.  u1 and u2 hold a profile in g1 and in   *)
(* g2; the tables are drawn from what earlier swipes can have left, and    *)
(* the members of both guilds then match, unmatch and delete.              *)

ScopeMembers == {"u1", "u2"} \X {"g1", "g2"}

\* The right swipes u1 and u2 may have made on each other in each guild.
ScopeRows ==
    {[guild_id |-> g, swiper_id |-> pair[1], swiped_id |-> pair[2], right_swipe |-> TRUE] :
        g \in Guilds, pair \in {<<"u1", "u2">>, <<"u2", "u1">>}}

\* The profiles of u1 and u2 in both guilds, matched with each other in the
\* guilds of paired.
ScopeProfiles(paired) ==
    [k \in Keys |->
        CASE k[1] = "u1" ->
                 UserProfile("u1", k[2], 25, "Male", "Dating", {"Female"}, 18, 100,
                             IF k[2] \in paired THEN "u2" ELSE None)
          [] k[1] = "u2" ->
                 UserProfile("u2", k[2], 25, "Female", "Dating", {"Male"}, 18, 100,
                             IF k[2] \in paired THEN "u1" ELSE None)
          [] OTHER -> NoProfile]

\* mark_as_matched is only called after both right swipes are recorded.
InitScope ==
    /\ \E rows \in SUBSET ScopeRows, paired \in SUBSET Guilds :
          /\ \A g \in paired : \A row \in ScopeRows : row.guild_id = g => row \in rows
          /\ swipes = SetToBag(rows)
          /\ profiles = ScopeProfiles(paired)
    /\ views = [k \in Keys |-> NoView]
    /\ queue = <<>>
    /\ reply = None
    /\ broker = "down"
    /\ members = ScopeMembers
    /\ worker = Idle

NextScope ==
    \/ \E m \in Keys : delete_profile(m)
    \/ \E m \in Keys : unmatch(m)
    \/ \E m \in Keys : start_matching(m)
    \/ \E m \in Keys : start_matching_update_candidate(m)
    \/ \E m \in Keys : swipe_left(m)
    \/ \E m \in Keys : swipe_right(m)
    \/ \E m \in Keys : on_timeout(m)

SpecScope == InitScope /\ [][NextScope]_vars

----------------------------------------------------------------------------
(* Location edits end to end: u1 of g1 holds a profile without a location  *)
(* and submits the /update_profile modal; the worker consumes what the bot *)
(* published.  RabbitMQ is within reach of the bot or not.                 *)

\* The raw locations of the edits, all of which normalize_country resolves.
EditLocations == {<<"US", "nj">>, <<"CAN", "ON">>, <<"Canda", "New Jersey">>}

InitEdit ==
    /\ profiles = [k \in Keys |->
                      IF k = <<"u1", "g1">>
                      THEN UserProfile("u1", "g1", 25, "Male", "Dating", {"Female"}, 18, 100, None)
                      ELSE NoProfile]
    /\ swipes = EmptyBag
    /\ views = [k \in Keys |-> NoView]
    /\ queue = <<>>
    /\ reply = None
    /\ broker \in {"up", "down"}
    /\ members = {<<"u1", "g1">>}
    /\ worker = Idle

NextEdit ==
    \/ \E m \in Keys, a \in AgeTexts, r \in RangeParts, loc \in EditLocations :
          UpdateProfileModal_on_submit(m, a, r, loc[1], loc[2])
    \/ callback_receive
    \/ callback_process
    \/ callback_ack

\* The consumer is blocked in start_consuming and takes every delivery.
SpecEdit ==
    /\ InitEdit
    /\ [][NextEdit]_vars
    /\ WF_vars(callback_receive)
    /\ WF_vars(callback_process)
    /\ WF_vars(callback_ack)

----------------------------------------------------------------------------
(* Two processes of location_service.py consume the same queue.  Here      *)
(* worker[w] is the state of process w: its position in callback and the   *)
(* delivery it holds (body), which the broker keeps out of the queue until *)
(* the acknowledgement; queue holds the messages not yet delivered.  The   *)
(* store answers every query.                                              *)

Workers == {"w1", "w2"}

\* A process between two deliveries, before its first one.
ParIdle == [stage |-> "idle", body |-> NoneObj]

\* The broker delivers the head of the queue to a consumer that holds no
\* unacknowledged delivery (prefetch_count=1), and callback starts.
par_receive(w) ==
    /\ worker[w].stage = "idle"
    /\ queue # <<>>
    /\ worker' = [worker EXCEPT ![w] = [stage |-> "received", body |-> Head(queue)]]
    /\ queue' = Tail(queue)
    /\ UNCHANGED <<profiles, swipes, views, broker, reply, members>>

\* process_location_update(body) in process w.
par_process(w) ==
    /\ worker[w].stage = "received"
    /\ \E geo \in geocode_query(worker[w].body) :
          profiles' = process_location_update(profiles, worker[w].body, geo)
    /\ worker' = [worker EXCEPT ![w].stage = "processed"]
    /\ UNCHANGED <<swipes, views, queue, broker, reply, members>>

\* ch.basic_ack in process w.
par_ack(w) ==
    /\ worker[w].stage = "processed"
    /\ worker' = [worker EXCEPT ![w].stage = "idle"]
    /\ UNCHANGED <<profiles, swipes, views, queue, broker, reply, members>>

\* Process w dies holding a delivery and is started again: the broker puts
\* the unacknowledged message back at the head of the queue.
par_crash(w) ==
    /\ worker[w].stage # "idle"
    /\ queue' = <<worker[w].body>> \o queue
    /\ worker' = [worker EXCEPT ![w] = ParIdle]
    /\ UNCHANGED <<profiles, swipes, views, broker, reply, members>>

\* The texts of the edit published first and of the one published after it.
FirstEdits == {<<"US", "nj">>, <<"Canadxy", "ON">>, <<"Staes Unitx", "">>}
LaterEdits == {<<"CAN", "ON">>, <<"Canda", "New Jersey">>, <<"Cada", "">>}

\* The message send_location_update publishes for u1 of g1.
EditBody(loc) == [discord_id |-> "u1", guild_id |-> "g1", raw_country |-> loc[1], raw_state |-> loc[2]]

InitPar ==
    /\ profiles = [k \in Keys |->
                      IF k = <<"u1", "g1">>
                      THEN UserProfile("u1", "g1", 25, "Male", "Dating", {"Female"}, 18, 100, None)
                      ELSE NoProfile]
    /\ swipes = EmptyBag
    /\ views = [k \in Keys |-> NoView]
    /\ \E e1 \in FirstEdits, e2 \in LaterEdits : queue = <<EditBody(e1), EditBody(e2)>>
    /\ reply = MsgUpdated
    /\ broker = "up"
    /\ members = {<<"u1", "g1">>}
    /\ worker = [w \in Workers |-> ParIdle]

NextPar ==
    \/ \E w \in Workers : par_receive(w)
    \/ \E w \in Workers : par_process(w)
    \/ \E w \in Workers : par_ack(w)
    \/ \E w \in Workers : par_crash(w)

SpecPar == InitPar /\ [][NextPar]_vars

----------------------------------------------------------------------------
(* Properties of the match references *)

Exists(k) == profiles[k] # NoProfile

\* The key, in the guild of k, of the profile k references.
Partner(k) == <<profiles[k].matched_with, k[2]>>

Matched(k) == Exists(k) /\ profiles[k].matched_with # None

\* The target of the swipe the view of m would record.
Target(m) == <<views[m].current_candidate[1], m[2]>>

\* C1: in every reachable state match references are symmetric within a
\* guild: a profile that references B finds B existing and referencing it
\* back, and no profile references itself.
C1_MatchSymmetric ==
    \A k \in Keys :
        Matched(k) =>
            /\ profiles[k].matched_with # k[1]
            /\ Partner(k) \in Keys
            /\ Exists(Partner(k))
            /\ profiles[Partner(k)].matched_with = k[1]

\* C2: the match commit of a right swipe never overwrites the match
\* reference of an actor or target that already references a third party.
C2_NoOverwrite ==
    [][\A m \in Keys :
          (swipe_right(m) /\ views[m].current_candidate # NoCandidate) =>
              \A k \in {m, Target(m)} :
                  (Matched(k) /\ Partner(k) \notin {m, Target(m)}) =>
                      profiles'[k] = profiles[k]]_vars

\* C3: a right swipe of m on a target that has already right-swiped m, both
\* of them unmatched, commits the match on both sides in that one step and
\* answers with the match; a right swipe that finds no reciprocal swipe
\* leaves its own swipe in the table for the other side to find, and sets
\* no reference.  Either way the two references are set together or not at
\* all.
C3_MutualSwipe ==
    [][\A m \in Keys :
          (/\ swipe_right(m)
           /\ views[m].current_candidate # NoCandidate
           /\ Exists(m) /\ ~Matched(m)
           /\ Exists(Target(m)) /\ ~Matched(Target(m))) =>
              /\ IF has_right_swiped(swipes, Target(m)[1], m[1], m[2])
                 THEN /\ profiles'[m].matched_with = Target(m)[1]
                      /\ profiles'[Target(m)].matched_with = m[1]
                      /\ reply' = MsgMatch
                 ELSE /\ has_right_swiped(swipes', m[1], Target(m)[1], m[2])
                      /\ profiles' = profiles
                      /\ reply' # MsgMatch
              /\ (profiles'[m].matched_with = Target(m)[1])
                     <=> (profiles'[Target(m)].matched_with = m[1])]_vars

\* Witness of C3: a match has just been committed between two members who
\* right-swiped each other.
C3_Witness ==
    /\ reply = MsgMatch
    /\ \E a, b \in Keys :
          /\ a # b /\ a[2] = b[2]
          /\ Matched(a) /\ Matched(b)
          /\ Partner(a) = b /\ Partner(b) = a
          /\ has_right_swiped(swipes, a[1], b[1], a[2])
          /\ has_right_swiped(swipes, b[1], a[1], a[2])

\* The answer the claim expects from a commit that lost the race.
MsgLostRace == "lost race"

\* C4: a right swipe that finds the reciprocal swipe while the actor or the
\* target is already matched answers "lost race", changes no match
\* reference and does not report a match.
C4_LostRace ==
    [][\A m \in Keys :
          (/\ swipe_right(m)
           /\ views[m].current_candidate # NoCandidate
           /\ has_right_swiped(swipes, Target(m)[1], m[1], m[2])
           /\ (Matched(m) \/ Matched(Target(m)))) =>
              /\ reply' = MsgLostRace
              /\ reply' # MsgMatch
              /\ profiles' = profiles]_vars

\* C5: after delete_profile(m) no remaining profile of the guild references m.
C5_DeleteClearsPartner ==
    [][\A m \in Keys :
          (delete_profile(m) /\ Exists(m)) =>
              \A k \in Keys :
                  (k[2] = m[2] /\ profiles'[k] # NoProfile) =>
                      profiles'[k].matched_with # m[1]]_vars

\* C6: unmatch by a member that references B clears the member's reference
\* and leaves B, if B exists, not referencing the member, in one step.
C6_UnmatchSymmetric ==
    [][\A m \in Keys :
          (unmatch(m) /\ Matched(m)) =>
              /\ profiles'[m].matched_with = None
              /\ (Partner(m) \in Keys /\ profiles'[Partner(m)] # NoProfile) =>
                     profiles'[Partner(m)].matched_with # m[1]]_vars

\* Witness of C6: an unmatch has just cleared a committed match.
C6_Witness ==
    /\ reply = MsgUnmatched
    /\ \E a, b \in Keys :
          /\ a # b /\ a[2] = b[2]
          /\ Exists(a) /\ Exists(b)
          /\ ~Matched(a) /\ ~Matched(b)
          /\ has_right_swiped(swipes, a[1], b[1], a[2])
          /\ has_right_swiped(swipes, b[1], a[1], a[2])

\* C7: unmatch by a member without a profile, or with no match reference,
\* answers "not matched" and changes neither the profiles nor the swipes.
C7_UnmatchNotMatched ==
    [][\A m \in Keys :
          (unmatch(m) /\ ~Matched(m)) =>
              /\ reply' = MsgNotMatched
              /\ profiles' = profiles
              /\ swipes' = swipes]_vars

\* Witness of C7: "not matched" has just been answered.
C7_Witness ==
    /\ reply = MsgNotMatched
    /\ \E k \in Keys : Matched(k)
    /\ \E k \in members : Exists(k) /\ ~Matched(k)

\* The eligibility predicate of the selector, stated on the tables P and S
\* for requester key m and candidate key k.
Eligible(P, S, m, k) ==
    /\ P[k] # NoProfile
    /\ k[1] # m[1]
    /\ k[2] = m[2]
    /\ P[k].matched_with = None
    /\ P[k].age >= P[m].preferred_min_age
    /\ P[k].age <= P[m].preferred_max_age
    /\ P[k].looking_for = P[m].looking_for
    /\ P[k].gender \in P[m].attracted_genders
    /\ P[m].gender \in P[k].attracted_genders
    /\ ~\E row \in BagToSet(S) :
          row.swiper_id = m[1] /\ row.swiped_id = k[1] /\ row.guild_id = m[2]

\* The selector has just handed a candidate to the view of m.
Returned(m) ==
    /\ views'[m] # views[m]
    /\ views'[m].current_candidate # NoCandidate

R == <<"u1", "g1">>

\* C8: a candidate the selector returns for a requester is not the
\* requester, has no swipe, left or right, from the requester onto it in
\* the requester's guild, and has a null matched_with when the query runs.
C8_SelectorExcludes ==
    [][\A m \in Keys :
          Returned(m) =>
              LET c == views'[m].current_candidate
              IN  /\ c[1] # m[1]
                  /\ profiles'[c] # NoProfile
                  /\ profiles'[c].matched_with = None
                  /\ ~\E row \in BagToSet(swipes') :
                        /\ row.swiper_id = m[1]
                        /\ row.swiped_id = c[1]
                        /\ row.guild_id = m[2]]_vars

\* Witness of C8: u3 is offered while u2, whom the filters of the query
\* keep and who is attracted both ways, has a swipe of u1 on it.
C8_Witness ==
    /\ views[R].status = "open"
    /\ views[R].current_candidate = <<"u3", "g1">>
    /\ <<"u2", "g1">> \in candidates(profiles, profiles[R])
    /\ profiles[<<"u2", "g1">>].gender \in profiles[R].attracted_genders
    /\ profiles[R].gender \in profiles[<<"u2", "g1">>].attracted_genders
    /\ has_swiped(swipes, "u1", "u2", "g1")

\* C9: a candidate the selector returns has a gender the requester is
\* attracted to, and is attracted to the gender of the requester.
C9_MutualAttraction ==
    [][\A m \in Keys :
          Returned(m) =>
              LET c == views'[m].current_candidate
              IN  /\ profiles'[c].gender \in profiles'[m].attracted_genders
                  /\ profiles'[m].gender \in profiles'[c].attracted_genders]_vars

\* Witness of C9: u3 is offered while u2, of a gender u1 is attracted to
\* and not swiped, is passed over for not being attracted to u1's gender.
C9_Witness ==
    /\ views[R].status = "open"
    /\ views[R].current_candidate = <<"u3", "g1">>
    /\ <<"u2", "g1">> \in candidates(profiles, profiles[R])
    /\ profiles[<<"u2", "g1">>].gender \in profiles[R].attracted_genders
    /\ profiles[R].gender \notin profiles[<<"u2", "g1">>].attracted_genders
    /\ ~has_swiped(swipes, "u1", "u2", "g1")

\* C10: a candidate the selector returns is of the requester's guild, of
\* an age within the requester's preferred range, bounds included, and
\* looks for what the requester looks for; and the selector returns none
\* only when no profile satisfies the eligibility predicate.
C10_FiltersAndCompleteness ==
    [][\A m \in Keys :
          /\ Returned(m) =>
                LET c == views'[m].current_candidate
                IN  /\ c[2] = m[2]
                    /\ profiles'[c].guild_id = profiles'[m].guild_id
                    /\ profiles'[c].age >= profiles'[m].preferred_min_age
                    /\ profiles'[c].age <= profiles'[m].preferred_max_age
                    /\ profiles'[c].looking_for = profiles'[m].looking_for
          /\ ( /\ ( \/ start_matching(m)
                     \/ start_matching_update_candidate(m)
                     \/ swipe_left(m)
                     \/ swipe_right(m) )
               /\ reply' \in {MsgNoNew, MsgRunOut} ) =>
                ~\E k \in Keys : Eligible(profiles', swipes', m, k)]_vars

\* Witness of C10: u1 is offered a candidate whose age is a bound of u1's
\* range, while a profile of the other guild and a profile just outside
\* the range are stored.
C10_Witness ==
    /\ views[R].status = "open"
    /\ views[R].current_candidate # NoCandidate
    /\ profiles[views[R].current_candidate].age
          \in {profiles[R].preferred_min_age, profiles[R].preferred_max_age}
    /\ profiles[<<"u3", "g2">>] # NoProfile
    /\ \E k \in Keys :
          /\ profiles[k] # NoProfile
          /\ k[2] = "g1"
          /\ profiles[k].age \in {profiles[R].preferred_min_age - 1,
                                  profiles[R].preferred_max_age + 1}

\* C11: a candidate the selector returns has a preferred age range that
\* holds the age of the requester.
C11_SymmetricAge ==
    [][\A m \in Keys :
          Returned(m) =>
              LET c == views'[m].current_candidate
              IN  /\ profiles'[m].age >= profiles'[c].preferred_min_age
                  /\ profiles'[m].age <= profiles'[c].preferred_max_age]_vars

\* The countries of a continent, for the rows the model stores.
SameContinent(a, b) ==
    /\ a \in {"Canada", "United States"}
    /\ b \in {"Canada", "United States"}

\* C12: with a location preference other than "Anywhere", a candidate the
\* selector returns has, as the requester has, the location columns the
\* preference reads, and lies in the scope the preference declares.
C12_LocationScope ==
    [][\A m \in Keys :
          (Returned(m) /\ profiles'[m].location_preference # "Anywhere") =>
              LET c == profiles'[views'[m].current_candidate]
                  r == profiles'[m]
              IN  CASE r.location_preference = "State/Province" ->
                          /\ r.state # None /\ c.state = r.state
                          /\ r.country # None /\ c.country = r.country
                    [] r.location_preference = "Nearby" ->
                          /\ r.latitude # None /\ r.longitude # None
                          /\ c.latitude # None /\ c.longitude # None
                    [] r.location_preference = "Same Country" ->
                          /\ r.country # None /\ c.country = r.country
                    [] r.location_preference = "Same Continent" ->
                          /\ r.country # None /\ c.country # None
                          /\ SameContinent(r.country, c.country)
                    [] OTHER -> FALSE]_vars

\* C13: the candidate handed to a requester is the only one the selector
\* can return on the tables it has read: the choice is a function of the
\* stored tables.
C13_Deterministic ==
    [][\A m \in Keys :
          Returned(m) =>
              get_next_candidate(profiles', swipes', profiles'[m])
                  = {views'[m].current_candidate}]_vars

\* C14: a call of the selector leaves every profile and the swipes table
\* as they were.
C14_SelectorReadOnly ==
    [][\A m \in Keys :
          (start_matching(m) \/ start_matching_update_candidate(m)) =>
              /\ profiles' = profiles
              /\ swipes' = swipes]_vars

\* Witness of C14: the selector has handed u1 a candidate on tables that
\* hold a swipe, a match reference and a profile of the other guild.
C14_Witness ==
    /\ views[R].status = "open"
    /\ reply = MsgSwipe
    /\ swipes # EmptyBag
    /\ \E k \in Keys : Matched(k)
    /\ profiles[<<"u3", "g2">>] # NoProfile

\* The answers that signal a missing requester, and those that signal that
\* no profile is eligible.
NotFoundAnswers == {MsgNotFound, MsgCreateFirst}
ExhaustedAnswers == {MsgNoNew, MsgRunOut}

\* C15: a selection for m that yields no candidate answers "not found"
\* exactly when m has no profile and "exhausted" exactly when m has a
\* profile and no profile is eligible; the two answers differ.
C15_NotFoundVsExhausted ==
    [][\A m \in members :
          /\ NotFoundAnswers \cap ExhaustedAnswers = {}
          /\ ( /\ reply' \in NotFoundAnswers \cup ExhaustedAnswers
               /\ ( \/ start_matching(m)
                    \/ start_matching_update_candidate(m)
                    \/ swipe_left(m)
                    \/ swipe_right(m) ) ) =>
                IF reply' \in NotFoundAnswers
                THEN profiles'[m] = NoProfile
                ELSE /\ profiles'[m] # NoProfile
                     /\ ~\E k \in Keys : Eligible(profiles', swipes', m, k)
          /\ ( /\ profiles'[m] = NoProfile
               /\ ( \/ start_matching(m)
                    \/ start_matching_update_candidate(m) ) ) =>
                reply' \in NotFoundAnswers]_vars

\* Witness of C15: a member whose profile was deleted while its view was
\* open has swiped and been answered "not found".
C15_Witness ==
    /\ reply = MsgNotFound
    /\ \E m \in members :
          /\ ~Exists(m)
          /\ views[m].status = "closed"
          /\ \E row \in BagToSet(swipes) :
                row.swiper_id = m[1] /\ row.guild_id = m[2]

\* C16: a left swipe adds the one row (guild, actor, target, left) to the
\* swipes table and changes no profile and no queued message, also when
\* the target has right-swiped the actor.
C16_LeftSwipeFrame ==
    [][\A m \in members :
          (/\ views[m].current_candidate # NoCandidate
           /\ swipe_left(m)) =>
              /\ swipes' = swipes (+) SetToBag({[guild_id |-> m[2],
                                                 swiper_id |-> m[1],
                                                 swiped_id |-> Target(m)[1],
                                                 right_swipe |-> FALSE]})
              /\ profiles' = profiles
              /\ queue' = queue
              /\ reply' # MsgMatch]_vars

\* Witness of C16: a member has left-swiped a member who had right-swiped
\* it, and both are unmatched.
C16_Witness ==
    \E a, b \in Keys :
        /\ a # b /\ a[2] = b[2]
        /\ Exists(a) /\ Exists(b)
        /\ ~Matched(a) /\ ~Matched(b)
        /\ has_swiped(swipes, a[1], b[1], a[2])
        /\ ~has_right_swiped(swipes, a[1], b[1], a[2])
        /\ has_right_swiped(swipes, b[1], a[1], a[2])

\* The swipes table holds a row, of any direction, from a onto b in guild g.
SwipeRecorded(a, b, g) ==
    \E row \in BagToSet(swipes) :
        row.swiper_id = a /\ row.swiped_id = b /\ row.guild_id = g

\* The swipes table holds a right swipe from a onto b in guild g.
RightSwipeRecorded(a, b, g) ==
    \E row \in BagToSet(swipes) :
        row.swiper_id = a /\ row.swiped_id = b /\ row.guild_id = g /\ row.right_swipe

\* C17: a right swipe on a target of which the swipes table holds no right
\* swipe onto the actor sets no match reference and does not answer with a
\* match; and in every reachable state two profiles that reference each
\* other have a right swipe recorded in both directions in their guild.
C17_OnlyMutualRightSwipes ==
    /\ [](\A a, b \in Keys :
            (/\ a # b /\ a[2] = b[2]
             /\ Matched(a) /\ Matched(b)
             /\ Partner(a) = b /\ Partner(b) = a) =>
                /\ RightSwipeRecorded(a[1], b[1], a[2])
                /\ RightSwipeRecorded(b[1], a[1], a[2]))
    /\ [][\A m \in members :
             (/\ views[m].current_candidate # NoCandidate
              /\ ~RightSwipeRecorded(Target(m)[1], m[1], m[2])
              /\ swipe_right(m)) =>
                 /\ profiles' = profiles
                 /\ reply' # MsgMatch]_vars

\* Witness of C17: a member has right-swiped a member who had left-swiped
\* it, and neither is matched.
C17_Witness ==
    \E a, b \in Keys :
        /\ a # b /\ a[2] = b[2]
        /\ Exists(a) /\ Exists(b)
        /\ ~Matched(a) /\ ~Matched(b)
        /\ has_right_swiped(swipes, a[1], b[1], a[2])
        /\ has_swiped(swipes, b[1], a[1], a[2])
        /\ ~has_right_swiped(swipes, b[1], a[1], a[2])

\* C18: no step removes or alters a row of the swipes table; a swipe on a
\* candidate adds exactly one row, and no other step changes the table.
C18_LedgerAppendOnly ==
    [][/\ \A row \in BagToSet(swipes) :
             /\ row \in BagToSet(swipes')
             /\ CopiesIn(row, swipes') >= CopiesIn(row, swipes)
       /\ swipes' # swipes =>
             /\ BagCardinality(swipes') = BagCardinality(swipes) + 1
             /\ \E m \in members :
                   /\ views[m].current_candidate # NoCandidate
                   /\ swipe_left(m) \/ swipe_right(m)
       /\ \A m \in members :
             (/\ views[m].current_candidate # NoCandidate
              /\ swipe_left(m) \/ swipe_right(m)) =>
                 BagCardinality(swipes') = BagCardinality(swipes) + 1]_vars

\* Witness of C18: a profile has been deleted and the swipes it made and
\* received are still in the table.
C18_Witness ==
    /\ reply = MsgDeleted
    /\ \E m \in members :
          /\ ~Exists(m)
          /\ \E row \in BagToSet(swipes) :
                row.swiper_id = m[1] /\ row.guild_id = m[2]
          /\ \E row \in BagToSet(swipes) :
                row.swiped_id = m[1] /\ row.guild_id = m[2]

\* C19: a candidate handed to a requester has no swipe, left or right, of
\* the requester on it in the table as it was before the step, whatever
\* matches, unmatches, edits and deletions came in between; and a swipe
\* never leaves the swiped candidate on the view.
C19_SwipeTerminal ==
    [][\A m \in members :
          /\ Returned(m) =>
                ~SwipeRecorded(m[1], views'[m].current_candidate[1], m[2])
          /\ (/\ views[m].current_candidate # NoCandidate
              /\ swipe_left(m) \/ swipe_right(m)) =>
                views'[m].current_candidate # views[m].current_candidate]_vars

\* Witness of C19: two members who right-swiped each other are unmatched
\* again, nobody else has a profile, and a selection answers that there is
\* no new candidate.
C19_Witness ==
    /\ reply = MsgNoNew
    /\ \E a, b \in members :
          /\ a # b /\ a[2] = b[2]
          /\ Exists(a) /\ Exists(b)
          /\ ~Matched(a) /\ ~Matched(b)
          /\ RightSwipeRecorded(a[1], b[1], a[2])
          /\ RightSwipeRecorded(b[1], a[1], a[2])
          /\ \A k \in Keys \ {a, b} : ~Exists(k)

\* C20: every stored profile is the one row of its (discord_id, guild_id)
\* key; and a creation submitted for a key that has a profile is turned
\* down: it changes no profile, queues no message and does not answer
\* that a profile was created, in every interleaving of the submissions.
C20_OneProfilePerKey ==
    /\ [](\A k \in Keys :
            Exists(k) => profiles[k].discord_id = k[1] /\ profiles[k].guild_id = k[2])
    /\ [][\A m \in members :
             (/\ Exists(m)
              /\ \E a \in AgeTexts, r \in RangeParts, loc \in RawLocations :
                    ProfileInfoModal_on_submit(m, a, r, loc[1], loc[2])) =>
                 /\ profiles' = profiles
                 /\ queue' = queue
                 /\ reply' # MsgCreated]_vars

\* Witness of C20: a creation has been turned down for a member whose
\* profile is past the values it was created with.
C20_Witness ==
    /\ reply = MsgAlready
    /\ \E m \in members :
          /\ Exists(m)
          /\ profiles[m].gender # "Male" \/ Matched(m)

\* C21: the worker acknowledges a message only from the point where
\* process_location_update has returned, a crash leaves the message in
\* the queue, and a message whose store write failed is not acknowledged.
C21_AckAfterPersist ==
    [][/\ queue' # queue => (worker.stage = "processed" /\ queue' = Tail(queue))
       /\ crash => queue' = queue
       /\ callback_ack => worker.outcome # "db_error"]_vars

\* C22: a malformed body changes no profile, is logged as a failure and
\* acknowledged, and the well-formed message behind it is then processed.
C22_MalformedDropped ==
    /\ [][(callback_process /\ Head(queue) = Malformed) =>
              /\ profiles' = profiles
              /\ worker'.stage = "processed"
              /\ worker'.outcome = "failed"]_vars
    /\ [][(worker.stage = "processed" /\ worker.outcome = "failed") =>
              /\ queue' = Tail(queue)
              /\ profiles' = profiles]_vars
    /\ \A b \in LocBodies \ {Malformed} :
          (queue = <<Malformed, b>>) ~>
              (/\ queue = <<b>>
               /\ worker.stage = "processed"
               /\ worker.outcome \in {"updated", "no_profile", "db_error"})

\* Witness of C22: a malformed body has been processed with a well-formed
\* message waiting behind it.
C22_Witness ==
    /\ worker.stage = "processed"
    /\ worker.outcome = "failed"
    /\ Len(queue) = 2
    /\ queue[1] = Malformed
    /\ queue[2] # Malformed

\* The key a well-formed body addresses.
BodyKey(body) == <<body.discord_id, body.guild_id>>

\* C23: a message for a key without a profile creates and changes no
\* profile, is logged as such, is acknowledged by the next step of the
\* worker and is passed over once only.
C23_NoProfileDiscarded ==
    /\ [][(/\ callback_process
            /\ Head(queue) # Malformed
            /\ profiles[BodyKey(Head(queue))] = NoProfile) =>
               /\ profiles' = profiles
               /\ worker'.stage = "processed"
               /\ worker'.outcome \in {"no_profile", "db_error"}]_vars
    /\ [][(worker.stage = "processed" /\ worker.outcome = "no_profile") =>
               /\ queue' = Tail(queue)
               /\ profiles' = profiles]_vars
    /\ [](worker.outcome = "no_profile" => worker.passes = 1)
    /\ (worker.outcome = "no_profile") ~> (worker.stage = "idle")

\* Witness of C23: the update for u2, who has no profile, has been
\* processed and is about to be acknowledged.
C23_Witness ==
    /\ worker.stage = "processed"
    /\ worker.outcome = "no_profile"
    /\ Head(queue) # Malformed
    /\ BodyKey(Head(queue)) = <<"u2", "g1">>
    /\ \A k \in Keys : k # <<"u1", "g1">> => profiles[k] = NoProfile

\* C24: when the country resolved and the geocoder gave no coordinates,
\* the profile is written with the resolved country and subdivision and
\* with null latitude and longitude, in the one pass that is made, and
\* the message is acknowledged next.
C24_GeocoderDegraded ==
    /\ [][(/\ callback_process
            /\ Head(queue) # Malformed
            /\ worker'.outcome = "updated"
            /\ normalize_country(Head(queue).raw_country) # NoneObj
            /\ worker'.geo.lat = None) =>
               LET body == Head(queue)
                   country == normalize_country(body.raw_country)
                   sub == normalize_subdivision(body.raw_state, country.alpha_2)
                   row == profiles'[BodyKey(body)]
               IN  /\ row.country = country.name
                   /\ row.state = IF sub # NoneObj THEN sub.name ELSE None
                   /\ row.latitude = None
                   /\ row.longitude = None
                   /\ worker'.passes = 1]_vars
    /\ [][(worker.stage = "processed" /\ worker.outcome = "updated") =>
               queue' = Tail(queue)]_vars

\* Witness of C24: u1's row holds a resolved country and subdivision and
\* null coordinates after a pass in which the geocoder gave none.
C24_Witness ==
    /\ worker.stage = "processed"
    /\ worker.outcome = "updated"
    /\ worker.geo.lat = None
    /\ profiles[<<"u1", "g1">>].country = "United States"
    /\ profiles[<<"u1", "g1">>].state = "New Jersey"
    /\ profiles[<<"u1", "g1">>].latitude = None

\* C25: when the country of a message does not resolve, the geocoder is
\* not asked and the row is written with country, subdivision, latitude
\* and longitude null, whatever it held; and after a write a row with a
\* null country has a null subdivision and null coordinates.
C25_GatedOnCountry ==
    [][(/\ callback_process
        /\ Head(queue) # Malformed
        /\ worker'.outcome = "updated") =>
           LET body == Head(queue)
               row == profiles'[BodyKey(body)]
           IN  /\ normalize_country(body.raw_country) = NoneObj =>
                     /\ worker'.geo = [lat |-> None, lon |-> None]
                     /\ row.country = None
                     /\ row.state = None
                     /\ row.latitude = None
                     /\ row.longitude = None
               /\ row.country = None =>
                     /\ row.state = None
                     /\ row.latitude = None
                     /\ row.longitude = None]_vars

\* Witness of C25: a message with an unresolvable country and a state text
\* has been written to u1's row, which holds no location.
C25_Witness ==
    /\ worker.stage = "processed"
    /\ worker.outcome = "updated"
    /\ Head(queue) # Malformed
    /\ Head(queue).raw_country = "Canadxy"
    /\ Head(queue).raw_state = "ON"
    /\ profiles[<<"u1", "g1">>].country = None
    /\ profiles[<<"u1", "g1">>].state = None

\* The best fuzzy score of a raw text over the country names.
BestScore(raw) ==
    CHOOSE n \in 0..100 :
        /\ \E i \in 1..Len(Countries) : WRatio(raw, Countries[i].name) = n
        /\ \A i \in 1..Len(Countries) : WRatio(raw, Countries[i].name) <= n

\* The raw text is the two- or three-letter code of a country.
IsCode(raw) == \E i \in 1..Len(Countries) : raw \in {Countries[i].alpha_2, Countries[i].alpha_3}

\* C26: in every writing pass the country written is the one whose code
\* the raw text is, whatever its fuzzy score; for any other text it is
\* the best fuzzy match exactly when that match scores 80 or more (80 is
\* accepted, 79 and 76 are not), and null for the empty text.
C26_CountryDecision ==
    [][(/\ callback_process
        /\ Head(queue) # Malformed
        /\ worker'.outcome = "updated") =>
           LET raw == Head(queue).raw_country
               written == profiles'[BodyKey(Head(queue))].country
           IN  /\ \A i \in 1..Len(Countries) :
                     raw \in {Countries[i].alpha_2, Countries[i].alpha_3} =>
                        written = Countries[i].name
               /\ raw = "" => written = None
               /\ (raw # "" /\ ~IsCode(raw)) =>
                     /\ written # None <=> BestScore(raw) >= 80
                     /\ written # None => WRatio(raw, written) = BestScore(raw)
               /\ raw = "Cada" => BestScore(raw) = 80 /\ written = "Canada"
               /\ raw = "Staes Unitx" => BestScore(raw) = 79 /\ written = None
               /\ raw = "US" => BestScore(raw) < 80 /\ written = "United States"]_vars

\* Witness of C26: the text "Cada", whose best score is exactly 80, has
\* been written to u1's row as Canada.
C26_Witness ==
    /\ worker.stage = "processed"
    /\ worker.outcome = "updated"
    /\ Head(queue) # Malformed
    /\ Head(queue).raw_country = "Cada"
    /\ profiles[<<"u1", "g1">>].country = "Canada"

\* C27: a pass over a message that an earlier pass has already written,
\* with the same answer of the geocoder, leaves every row as it is.
C27_IdempotentRedelivery ==
    [][(/\ callback_process
        /\ worker.passes >= 1
        /\ worker.outcome = "updated"
        /\ worker'.outcome = "updated"
        /\ worker'.geo = worker.geo) => profiles' = profiles]_vars

\* Witness of C27: the worker crashed before the acknowledgement and the
\* redelivered message has been processed a second time, the row holding
\* the country, the state and the coordinates of the geocoder's answer.
C27_Witness ==
    /\ worker.stage = "processed"
    /\ worker.passes = 2
    /\ worker.outcome = "updated"
    /\ worker.geo.lat # None
    /\ profiles[<<"u1", "g1">>].country = "United States"
    /\ profiles[<<"u1", "g1">>].state = "New Jersey"
    /\ profiles[<<"u1", "g1">>].latitude = worker.geo.lat

\* What a pass over a message may end in.
Outcomes == {"updated", "no_profile", "db_error", "failed"}

\* C28: without crashes the worker takes each message through received,
\* processed and acknowledged in this order and once: the message stays
\* at the head of the queue until the acknowledgement removes it, no
\* message is passed over twice, and every received message is
\* acknowledged in the end, whatever its pass ended in.
C28_SinglePass ==
    /\ [](worker.passes <= 1)
    /\ [][/\ worker.stage = "idle" => (worker'.stage = "received" /\ queue' = queue)
          /\ worker.stage = "received" =>
                (worker'.stage = "processed" /\ worker'.passes = 1 /\ queue' = queue)
          /\ worker.stage = "processed" =>
                (worker'.stage = "idle" /\ worker'.passes = 0 /\ queue' = Tail(queue))]_vars
    /\ \A n \in 1..MaxLocQueue :
          (worker.stage = "received" /\ Len(queue) = n) ~>
             (worker.stage = "idle" /\ Len(queue) = n - 1)
    /\ \A o \in Outcomes :
          (worker.stage = "processed" /\ worker.outcome = o) ~> (worker.stage = "idle")
    /\ <>[](queue = <<>> /\ worker.stage = "idle")

\* Witness of C28: every message of the queue has been acknowledged and
\* the worker waits for the next delivery.
C28_Witness ==
    /\ queue = <<>>
    /\ worker = Idle
    /\ profiles[<<"u1", "g1">>] # NoProfile
    /\ profiles[<<"u1", "g1">>].country = "Canada"
    /\ profiles[<<"u1", "g1">>].latitude = None

\* The statements of swipe_right after record_swipe.
AfterRecord == {"recorded", "reciprocated", "unreciprocated"}

\* C29: when the reciprocity query of a right swipe is evaluated the
\* swipes table already holds the right swipe of the actor on the target,
\* and its answer is whether the table holds the target's right swipe on
\* the actor; match references are written only by a handler whose query
\* has answered yes, with both right swipes in the table.
C29_RecordBeforeCheck ==
    /\ [][\A m \in members :
            (/\ views'[m].status \in {"reciprocated", "unreciprocated"}
             /\ views[m].status \notin {"reciprocated", "unreciprocated"}) =>
               /\ swipes' = swipes
               /\ RightSwipeRecorded(m[1], views[m].current_candidate[1], m[2])
               /\ views'[m].status = "reciprocated" <=>
                     RightSwipeRecorded(views[m].current_candidate[1], m[1], m[2])]_vars
    /\ [][profiles' # profiles =>
            \E m \in members :
               /\ views[m].status = "reciprocated"
               /\ views'[m] = NoView
               /\ RightSwipeRecorded(m[1], views[m].current_candidate[1], m[2])
               /\ RightSwipeRecorded(views[m].current_candidate[1], m[1], m[2])]_vars
    /\ [](\A m \in members :
            views[m].status \in AfterRecord =>
               RightSwipeRecorded(m[1], views[m].current_candidate[1], m[2]))

\* Witness of C29: the right swipe of u1 on u2 is in the table, the query
\* has found u2's right swipe on u1, and no match reference is written yet.
C29_Witness ==
    /\ views[<<"u1", "g1">>].status = "reciprocated"
    /\ views[<<"u1", "g1">>].current_candidate = <<"u2", "g1">>
    /\ RightSwipeRecorded("u1", "u2", "g1")
    /\ RightSwipeRecorded("u2", "u1", "g1")
    /\ profiles[<<"u1", "g1">>].matched_with = None
    /\ profiles[<<"u2", "g1">>].matched_with = None

\* C30: a right swipe that answers with the match message leaves both the
\* actor's and the target's profile in the table, each referencing the
\* other.
C30_MatchedMeansBothSet ==
    [][\A m \in members :
          (/\ views[m].current_candidate # NoCandidate
           /\ reply' = MsgMatch
           /\ swipe_right(m)) =>
             LET t == <<views[m].current_candidate[1], m[2]>>
             IN  /\ profiles'[m] # NoProfile
                 /\ profiles'[t] # NoProfile
                 /\ profiles'[m].matched_with = t[1]
                 /\ profiles'[t].matched_with = m[1]]_vars

\* C31: a member whose match reference is set is refused by
\* /start_matching, and no step adds a swipes row of which that member is
\* the swiper or writes match references on that member's swipe.
C31_MatchedDoesNotSwipe ==
    [][\A m \in members :
          Matched(m) =>
             /\ start_matching(m) => (reply' = MsgAlreadyMatched /\ views' = views)
             /\ \A row \in BagToSet(swipes') :
                   (row.swiper_id = m[1] /\ row.guild_id = m[2]) =>
                      CopiesIn(row, swipes') = CopiesIn(row, swipes)]_vars

\* The members the selector may give the member of key k, on tables P, S.
EligibleIn(P, S, k) == IF P[k] = NoProfile THEN {} ELSE get_next_candidate(P, S, P[k])

\* The rows of the swipes table S that belong to guild g.
RowsOf(S, g) == {row \in BagToSet(S) : row.guild_id = g}

\* C32: a swipe, unmatch or deletion by a member of one guild leaves, in
\* the other guild, every profile, every swipes row and the candidates of
\* every member as they were; and a right swipe answers with a match only
\* if the swipes table holds the target's right swipe on the actor in the
\* actor's own guild.
C32_ScopesIsolated ==
    /\ [][\A m \in members :
            (swipe_left(m) \/ swipe_right(m) \/ unmatch(m) \/ delete_profile(m)) =>
               /\ \A k \in Keys :
                     k[2] # m[2] =>
                        /\ profiles'[k] = profiles[k]
                        /\ EligibleIn(profiles', swipes', k) = EligibleIn(profiles, swipes, k)
               /\ \A g \in Guilds \ {m[2]} : RowsOf(swipes', g) = RowsOf(swipes, g)]_vars
    /\ [][\A m \in members :
            (/\ views[m].current_candidate # NoCandidate
             /\ reply' = MsgMatch
             /\ swipe_right(m)) =>
               \E row \in BagToSet(swipes) :
                  /\ row.guild_id = m[2]
                  /\ row.swiper_id = views[m].current_candidate[1]
                  /\ row.swiped_id = m[1]
                  /\ row.right_swipe]_vars

\* Witness of C32: the table holds the right swipe of u1 on u2 in g1 only
\* and that of u2 on u1 in g2 only; the later of the two has just been
\* answered with a run-out, not a match, and both hold their profiles.
C32_Witness ==
    /\ RightSwipeRecorded("u1", "u2", "g1")
    /\ RightSwipeRecorded("u2", "u1", "g2")
    /\ ~SwipeRecorded("u2", "u1", "g1")
    /\ ~SwipeRecorded("u1", "u2", "g2")
    /\ reply = MsgRunOut
    /\ profiles[<<"u2", "g1">>] # NoProfile
    /\ profiles[<<"u2", "g2">>] # NoProfile
    /\ profiles[<<"u2", "g2">>].matched_with = None
    /\ profiles[<<"u1", "g1">>] # NoProfile
    /\ profiles[<<"u1", "g1">>].matched_with = None
    /\ profiles[<<"u1", "g2">>] # NoProfile
    /\ profiles[<<"u2", "g2">>] # NoProfile

\* C33: once u1's edit has been answered with "Profile updated", the row
\* of u1, which exists throughout, comes to hold a country - every edit
\* names one that resolves - and the last edit is not lost: when no
\* message is left to consume the row holds a country.
C33_EditEventuallyWritten ==
    (reply = MsgUpdated) ~> (profiles[<<"u1", "g1">>].country # None)

\* C34: once both messages are acknowledged - the queue is empty and no
\* process holds a delivery - the row of u1 holds the country and the
\* state normalized from the edit published last, which is the delivery a
\* process handled if that delivery is one of the later edits.
C34_LaterEditWins ==
    (queue = <<>> /\ \A w \in Workers : worker[w].stage = "idle") =>
        \A w \in Workers :
            worker[w].body \in {EditBody(e) : e \in LaterEdits} =>
                LET country == normalize_country(worker[w].body.raw_country)
                    sub == normalize_subdivision(worker[w].body.raw_state, country.alpha_2)
                IN  /\ profiles[<<"u1", "g1">>].country = country.name
                    /\ profiles[<<"u1", "g1">>].state =
                          IF sub # NoneObj THEN sub.name ELSE None

====
